---- MODULE Spec2Model ----
(***************************************************************************)
(* Model of QuantLib's EvolutionDescription                                *)
(* (ql/MarketModels/evolutiondescription.cpp): the validating constructor, *)
(* the derived time structure, the numeraire compatibility checker and the *)
(* measure generators / classifiers.                                       *)
(*                                                                         *)
(* Times (C++ double) are modelled as integers: the code only compares    *)
(* them, subtracts them and takes minima.  Indices are 0-based as in the   *)
(* code; element k of a C++ vector v is v[k+1] here.  Size is an unsigned  *)
(* integer of SizeBits bits, arithmetic on it wraps.                       *)
(***************************************************************************)
EXTENDS Integers, Sequences, FiniteSets, TLC

\* ------------------------------------------------------------------ bounds
\* largest time value fed to the constructor; times range over -1..MaxTime
MaxTime == 2
\* longest strictly increasing rate-time vector fed to the constructor
MaxRateTimes == 3
\* longest evolution-time / relevance-rate / numeraire vector
MaxSteps == 3
\* longest vector fed to the constructor with no ordering imposed on it
MaxUnsortedLen == 2
\* width of Size in the model (std::size_t is wider; only the wrap-around
\* of 0-1 to a value above every allocatable length matters here)
SizeBits == 8

Times == (0 - 1)..MaxTime

\* the rate times of the documented scenario
ScenarioRateTimes == <<0, 1, 2, 3>>

\* --------------------------------------------------------- Size arithmetic
SizeMod == 2 ^ SizeBits

SizeSub(a, b) == (a - b) % SizeMod

SizeAdd(a, b) == (a + b) % SizeMod

\* std::vector<Time>::max_size(): below the largest Size (sizeof(Time) = 8)
VectorMaxSize == (SizeMod - 1) \div 8

\* std::min
Min(a, b) == IF b < a THEN b ELSE a

\* --------------------------------------------------------- error messages
ErrRateTimesSize == "Rate times must have 2 elements at least"

ErrFirstRateTime == "first rate time must be non negative"

ErrRateTimesOrder == "rate times must be strictly increasing"

ErrEvolutionSize == "Evolution times must have 1 elements at least"

ErrEvolutionOrder == "Evolution times must be strictly increasing"

ErrEvolutionPast == "The last evolution time is past the last rate time"

ErrRelevance == "relevanceRates / evolutionTimes mismatch"

ErrSizeMismatch == "Size mismatch between numeraires and evolution times"

ErrExpired == "the numeraire is expired"

ErrOffset == "offset is greater than the max allowed value for numeraire"

\* ------------------------------------------------------------- the object
\* no object: the value of ev before construction and after a failed one
NoObject ==
    [exists |-> FALSE, rateTimes_ |-> <<>>, evolutionTimes_ |-> <<>>,
     steps_ |-> 0, relevanceRates_ |-> <<>>, rateTaus_ |-> <<>>,
     effStopTime_ |-> <<>>, firstAliveRate_ |-> <<>>]

\* EvolutionDescription::EvolutionDescription() : steps_(0) {}
DefaultEvolutionDescription == [NoObject EXCEPT !.exists = TRUE]

\* outcome of a constructor call
CtorThrown(what) ==
    [status |-> "error", error |-> what, ev |-> NoObject,
     reads |-> <<>>, oob |-> FALSE]

CtorCrash ==
    [status |-> "crash", error |-> "", ev |-> NoObject,
     reads |-> <<>>, oob |-> FALSE]

\* first i in from..Len(v) with ~(v[i] > v[i-1]), 0 when there is none
RECURSIVE FirstNotIncreasing(_, _)
FirstNotIncreasing(v, i) ==
    IF i > Len(v) THEN 0
    ELSE IF v[i] > v[i-1] THEN FirstNotIncreasing(v, i + 1)
    ELSE i

\* for (i = 1; i<rateTimes.size(); ++i) QL_REQUIRE(rateTimes[i]>rateTimes[i-1])
RateTimesIncreasing_NonStrict(rateTimes) ==
    \A i \in 2..Len(rateTimes) : rateTimes[i] >= rateTimes[i-1]

RateTimesIncreasing(rateTimes) == FirstNotIncreasing(rateTimes, 2) = 0

\* for (i = 1; i<steps_; ++i) QL_REQUIRE(evolutionTimes_[i]>evolutionTimes_[i-1])
EvolutionTimesIncreasing(evolutionTimes_) ==
    FirstNotIncreasing(evolutionTimes_, 2) = 0

\* while (rateTimes_[firstAliveRate] <= currentEvolutionTime)
AliveCursorAdvances(rateTime, currentEvolutionTime) ==
    rateTime <= currentEvolutionTime

\* the inner while loop of the first-alive-rate sweep; reads records every
\* index at which rateTimes_ is read, oob a read at or past rateTimes_.size()
RECURSIVE AliveWhile(_, _, _, _)
AliveWhile(rateTimes_, firstAliveRate, currentEvolutionTime, reads) ==
    IF firstAliveRate >= Len(rateTimes_)
    THEN [cursor |-> firstAliveRate, reads |-> Append(reads, firstAliveRate),
          oob |-> TRUE]
    ELSE IF AliveCursorAdvances(rateTimes_[firstAliveRate + 1],
                                currentEvolutionTime)
    THEN AliveWhile(rateTimes_, firstAliveRate + 1, currentEvolutionTime,
                    Append(reads, firstAliveRate))
    ELSE [cursor |-> firstAliveRate, reads |-> Append(reads, firstAliveRate),
          oob |-> FALSE]

\* the first-alive-rate sweep over the steps j = 0 .. steps_-1
RECURSIVE FirstAliveSweep(_, _, _, _, _, _, _)
FirstAliveSweep(rateTimes_, evolutionTimes_, j, firstAliveRate, currentEvolutionTime, out, reads) ==
    IF j >= Len(evolutionTimes_)
    THEN [firstAliveRate_ |-> out, reads |-> reads, oob |-> FALSE]
    ELSE LET w == AliveWhile(rateTimes_, firstAliveRate,
                             currentEvolutionTime, reads)
         IN  IF w.oob
             THEN [firstAliveRate_ |-> out, reads |-> w.reads, oob |-> TRUE]
             ELSE FirstAliveSweep(rateTimes_, evolutionTimes_, j + 1,
                                  w.cursor, evolutionTimes_[j + 1],
                                  Append(out, w.cursor), w.reads)

\* rateTaus_[i] = rateTimes_[i+1] - rateTimes_[i]
RateTaus(rateTimes_) ==
    [i \in 1..(Len(rateTimes_) - 1) |-> rateTimes_[i + 1] - rateTimes_[i]]

\* effStopTime_[j][i] = std::min(evolutionTimes_[j], rateTimes_[i])
EffStopTime(rateTimes_, evolutionTimes_) ==
    [j \in 1..Len(evolutionTimes_) |->
        [i \in 1..(Len(rateTimes_) - 1) |->
            Min(evolutionTimes_[j], rateTimes_[i])]]

\* the default relevance rates: steps_ copies of (0, rateTimes.size()-1)
DefaultRelevanceRates(steps_, rateTimes) ==
    [j \in 1..steps_ |-> <<0, SizeSub(Len(rateTimes), 1)>>]

\* the constructor body, run once the member initialisers have succeeded
CtorBody(rateTimes, evolutionTimes_, relevanceRates) ==
    LET steps_ == Len(evolutionTimes_)
        sweep  == FirstAliveSweep(rateTimes, evolutionTimes_, 0, 0, 0,
                                  <<>>, <<>>)
    IN  IF ~(Len(rateTimes) > 1) THEN CtorThrown(ErrRateTimesSize)
        ELSE IF ~(rateTimes[1] >= 0) THEN CtorThrown(ErrFirstRateTime)
        ELSE IF ~RateTimesIncreasing(rateTimes)
        THEN CtorThrown(ErrRateTimesOrder)
        ELSE IF ~(steps_ > 0) THEN CtorThrown(ErrEvolutionSize)
        ELSE IF ~EvolutionTimesIncreasing(evolutionTimes_)
        THEN CtorThrown(ErrEvolutionOrder)
        ELSE IF ~(rateTimes[Len(rateTimes)] >= evolutionTimes_[steps_])
        THEN CtorThrown(ErrEvolutionPast)
        ELSE IF Len(relevanceRates) # 0 /\ ~(Len(relevanceRates) = steps_)
        THEN CtorThrown(ErrRelevance)
        ELSE IF sweep.oob
        THEN [status |-> "ub", error |-> "", ev |-> NoObject,
              reads |-> sweep.reads, oob |-> TRUE]
        ELSE [status |-> "ok", error |-> "",
              ev |-> [exists |-> TRUE,
                      rateTimes_ |-> rateTimes,
                      evolutionTimes_ |-> evolutionTimes_,
                      steps_ |-> steps_,
                      relevanceRates_ |->
                          IF Len(relevanceRates) = 0
                          THEN DefaultRelevanceRates(steps_, rateTimes)
                          ELSE relevanceRates,
                      rateTaus_ |-> RateTaus(rateTimes),
                      effStopTime_ |-> EffStopTime(rateTimes, evolutionTimes_),
                      firstAliveRate_ |-> sweep.firstAliveRate_],
              reads |-> sweep.reads, oob |-> FALSE]

\* EvolutionDescription(rateTimes, evolutionTimes, relevanceRates): the set
\* of outcomes of the call.  The member initialisers run before the body:
\* the default evolution times are built from rateTimes.end()-1 (undefined
\* for an empty vector) and rateTaus_ is sized rateTimes_.size()-1 in Size.
EvolutionDescription(rateTimes, evolutionTimes, relevanceRates) ==
    IF ~(Len(evolutionTimes) > 0) /\ Len(rateTimes) = 0
    THEN {CtorThrown("std::length_error"), CtorThrown("std::bad_alloc"),
          CtorCrash}
    ELSE LET evolutionTimes_ ==
                 IF Len(evolutionTimes) > 0 THEN evolutionTimes
                 ELSE SubSeq(rateTimes, 1, Len(rateTimes) - 1)
         IN  IF SizeSub(Len(rateTimes), 1) > VectorMaxSize
             THEN {CtorThrown("std::length_error"),
                   CtorThrown("std::bad_alloc")}
             ELSE LET r == CtorBody(rateTimes, evolutionTimes_,
                                    relevanceRates)
                  IN  IF r.status = "ub"
                      THEN {[r EXCEPT !.status = "crash"],
                            [r EXCEPT !.status = "unspecified"]}
                      ELSE {r}

\* ---------------------------------------------------- the free functions
\* outcome of a call of a free function
Returned ==
    [status |-> "ok", error |-> "", step |-> 0, vec |-> <<>>,
     flag |-> FALSE, reads |-> <<>>, oob |-> FALSE]

Thrown(what) == [Returned EXCEPT !.status = "error", !.error = what]

\* undefined behaviour: the call's outcomes are chosen by the action
Undefined == [Returned EXCEPT !.status = "ub"]

\* the loop bound of checkCompatibility: for (Size i=0; i<n-1; i++)
CheckedSteps_All(n) == n

CheckedSteps(n) == SizeSub(n, 1)

\* QL_REQUIRE(rateTimes[numeraires[i]] >= evolutionTimes[i], ...)
NumeraireAlive_Strict(rateTime, evolutionTime) == rateTime > evolutionTime

NumeraireAlive(rateTime, evolutionTime) == rateTime >= evolutionTime

\* the expiry loop of checkCompatibility from step i on
RECURSIVE CheckExpiry(_, _, _, _, _)
CheckExpiry(rateTimes, evolutionTimes, numeraires, i, bound) ==
    IF ~(i < bound) THEN Returned
    ELSE IF i >= Len(numeraires) \/ i >= Len(evolutionTimes)
    THEN Undefined
    ELSE IF numeraires[i + 1] >= Len(rateTimes) THEN Undefined
    ELSE IF ~NumeraireAlive(rateTimes[numeraires[i + 1] + 1],
                            evolutionTimes[i + 1])
    THEN [Thrown(ErrExpired) EXCEPT !.step = i]
    ELSE CheckExpiry(rateTimes, evolutionTimes, numeraires, i + 1, bound)

\* void checkCompatibility(evolution, numeraires)
checkCompatibility(evolution, numeraires) ==
    LET evolutionTimes == evolution.evolutionTimes_
        n == Len(evolutionTimes)
    IN  IF ~(Len(numeraires) = n) THEN Thrown(ErrSizeMismatch)
        ELSE CheckExpiry(evolution.rateTimes_, evolutionTimes, numeraires,
                         0, CheckedSteps(n))

\* *std::min_element(first, last) over a non-empty vector
RECURSIVE MinElement(_, _, _)
MinElement(v, i, best) ==
    IF i > Len(v) THEN best
    ELSE MinElement(v, i + 1, IF v[i] < best THEN v[i] ELSE best)

\* the value the terminal classifier compares with: rateTimes.size()-1
TerminalIndex_Steps(evolution) == Len(evolution.evolutionTimes_)

TerminalIndex(evolution) == SizeSub(Len(evolution.rateTimes_), 1)

\* bool isInTerminalMeasure(evolution, numeraires)
isInTerminalMeasure(evolution, numeraires) ==
    IF Len(numeraires) = 0 THEN Undefined
    ELSE [Returned EXCEPT
            !.flag = (MinElement(numeraires, 2, numeraires[1])
                        = TerminalIndex(evolution))]

\* std::vector<Size> terminalMeasure(evolution)
terminalMeasure(evolution) ==
    [Returned EXCEPT
       !.vec = [i \in 1..Len(evolution.evolutionTimes_) |->
                   SizeSub(Len(evolution.rateTimes_), 1)]]

\* QL_REQUIRE(offset<=maxNumeraire, ...) of moneyMarketPlusMeasure
OffsetAllowed(offset, maxNumeraire) == offset <= maxNumeraire

\* while (rateTimes[j] < evolutionTimes[i]) of moneyMarketPlusMeasure
CursorAdvances(rateTime, evolutionTime) == rateTime < evolutionTime

\* numeraires[i] = std::min(j+offset, maxNumeraire)
NumeraireAt_NoCap(j, offset, maxNumeraire) == SizeAdd(j, offset)

NumeraireAt(j, offset, maxNumeraire) == Min(SizeAdd(j, offset), maxNumeraire)

\* the inner while loop of moneyMarketPlusMeasure
RECURSIVE CursorWhile(_, _, _, _)
CursorWhile(rateTimes, j, evolutionTime, reads) ==
    IF j >= Len(rateTimes)
    THEN [cursor |-> j, reads |-> Append(reads, j), oob |-> TRUE]
    ELSE IF CursorAdvances(rateTimes[j + 1], evolutionTime)
    THEN CursorWhile(rateTimes, j + 1, evolutionTime, Append(reads, j))
    ELSE [cursor |-> j, reads |-> Append(reads, j), oob |-> FALSE]

\* where the cursor of moneyMarketPlusMeasure starts at each step: it is
\* declared once in the for-initialiser and carried over
CursorStart_Rescan(j) == 0

CursorStart(j) == j

\* the for loop of moneyMarketPlusMeasure from step i with cursor j
RECURSIVE MeasureLoop(_, _, _, _, _, _, _, _)
MeasureLoop(rateTimes, evolutionTimes, offset, maxNumeraire, i, j, numeraires, reads) ==
    IF ~(i < Len(evolutionTimes))
    THEN [Returned EXCEPT !.vec = numeraires, !.reads = reads]
    ELSE LET w == CursorWhile(rateTimes, CursorStart(j),
                              evolutionTimes[i + 1], reads)
         IN  IF w.oob
             THEN [Undefined EXCEPT !.reads = w.reads, !.oob = TRUE]
             ELSE MeasureLoop(rateTimes, evolutionTimes, offset,
                              maxNumeraire, i + 1, w.cursor,
                              Append(numeraires,
                                     NumeraireAt(w.cursor, offset,
                                                 maxNumeraire)),
                              w.reads)

\* std::vector<Size> moneyMarketPlusMeasure(ev, offset)
moneyMarketPlusMeasure(ev, offset) ==
    LET rateTimes == ev.rateTimes_
        maxNumeraire == SizeSub(Len(rateTimes), 1)
    IN  IF ~OffsetAllowed(offset, maxNumeraire) THEN Thrown(ErrOffset)
        ELSE MeasureLoop(rateTimes, ev.evolutionTimes_, offset,
                         maxNumeraire, 0, 0, <<>>, <<>>)

\* the offset moneyMarketMeasure passes on
MoneyMarketOffset_One == 0 + 1

MoneyMarketOffset == 0

\* std::vector<Size> moneyMarketMeasure(evol)
moneyMarketMeasure(evol) == moneyMarketPlusMeasure(evol, MoneyMarketOffset)

\* while (rateTimes[j] < evolutionTimes[i]) of isInMoneyMarketPlusMeasure
ClassifierCursorAdvances(rateTime, evolutionTime) ==
    rateTime < evolutionTime

\* the inner while loop of isInMoneyMarketPlusMeasure
RECURSIVE ClassifierWhile(_, _, _, _)
ClassifierWhile(rateTimes, j, evolutionTime, reads) ==
    IF j >= Len(rateTimes)
    THEN [cursor |-> j, reads |-> Append(reads, j), oob |-> TRUE]
    ELSE IF ClassifierCursorAdvances(rateTimes[j + 1], evolutionTime)
    THEN ClassifierWhile(rateTimes, j + 1, evolutionTime, Append(reads, j))
    ELSE [cursor |-> j, reads |-> Append(reads, j), oob |-> FALSE]

\* res = (numeraires[i] == std::min(j+offset, maxNumeraire)) && res
Accumulate_Last(matches, res) == matches

Accumulate(matches, res) == matches /\ res

\* the for loop of isInMoneyMarketPlusMeasure from step i with cursor j
RECURSIVE ClassifierLoop(_, _, _, _, _, _, _, _, _)
ClassifierLoop(rateTimes, evolutionTimes, numeraires, offset, maxNumeraire, i, j, res, reads) ==
    IF ~(i < Len(evolutionTimes))
    THEN [Returned EXCEPT !.flag = res, !.reads = reads]
    ELSE LET w == ClassifierWhile(rateTimes, j, evolutionTimes[i + 1], reads)
         IN  IF w.oob
             THEN [Undefined EXCEPT !.reads = w.reads, !.oob = TRUE]
             ELSE IF i >= Len(numeraires)
             THEN [Undefined EXCEPT !.reads = w.reads]
             ELSE ClassifierLoop(rateTimes, evolutionTimes, numeraires,
                                 offset, maxNumeraire, i + 1, w.cursor,
                                 Accumulate(numeraires[i + 1] =
                                              Min(SizeAdd(w.cursor, offset),
                                                  maxNumeraire),
                                            res),
                                 w.reads)

\* bool isInMoneyMarketPlusMeasure(evolution, numeraires, offset)
isInMoneyMarketPlusMeasure(evolution, numeraires, offset) ==
    LET rateTimes == evolution.rateTimes_
        maxNumeraire == SizeSub(Len(rateTimes), 1)
    IN  IF ~(offset <= maxNumeraire) THEN Thrown(ErrOffset)
        ELSE ClassifierLoop(rateTimes, evolution.evolutionTimes_, numeraires,
                            offset, maxNumeraire, 0, 0, TRUE, <<>>)

\* bool isInMoneyMarketMeasure(evolution, numeraires)
isInMoneyMarketMeasure(evolution, numeraires) ==
    isInMoneyMarketPlusMeasure(evolution, numeraires, 0)

\* ------------------------------------------------------- the state machine
VARIABLES pc, ctor, built, ev, call, result

vars == <<pc, ctor, built, ev, call, result>>

\* every sequence over S of length at most n
SeqsUpTo(S, n) == UNION {[1..k -> S] : k \in 0..n}

\* the strictly increasing ones among them
IncreasingUpTo(S, n) ==
    {v \in SeqsUpTo(S, n) : \A i \in 2..Len(v) : v[i] > v[i-1]}

\* the vectors a caller passes to the constructor
RateTimeInputs ==
    SeqsUpTo(Times, MaxUnsortedLen) \cup IncreasingUpTo(Times, MaxRateTimes)
        \cup {ScenarioRateTimes}

\* evolution times range one past MaxTime, so that the last evolution time
\* can pass any last rate time
EvolutionTimeInputs ==
    SeqsUpTo(Times \cup {MaxTime + 1}, MaxUnsortedLen)
        \cup IncreasingUpTo(Times \cup {MaxTime + 1}, MaxSteps)

RelevanceInputs == {[i \in 1..k |-> <<0, 0>>] : k \in 0..MaxSteps}

\* the numeraire vectors a caller passes for an object: entries among the
\* rate indices and one index past the last, one entry per step or one
\* entry fewer or more
NumeraireInputs(evolution) ==
    UNION {[1..k -> 0..Len(evolution.rateTimes_)] :
             k \in {h \in 0..MaxSteps :
                      /\ h >= Len(evolution.evolutionTimes_) - 1
                      /\ h <= Len(evolution.evolutionTimes_) + 1}}

\* the offsets a caller passes for an object: up to one past the last index
OffsetInputs(evolution) == 0..Len(evolution.rateTimes_)

\* undefined behaviour ends the process or returns an unspecified value
Outcomes(r) ==
    IF r.status = "ub"
    THEN {[r EXCEPT !.status = "crash"], [r EXCEPT !.status = "unspecified"]}
    ELSE {r}

NoCtorCall ==
    [kind |-> "none", rateTimes |-> <<>>, evolutionTimes |-> <<>>,
     relevanceRates |-> <<>>]

NoCall == [op |-> "none", numeraires |-> <<>>, offset |-> 0]

NotBuilt == [status |-> "none", error |-> "", reads |-> <<>>, oob |-> FALSE]

Init ==
    /\ pc = "start"
    /\ ctor = NoCtorCall
    /\ built = NotBuilt
    /\ ev = NoObject
    /\ call = NoCall
    /\ result = Returned

\* EvolutionDescription ev(rateTimes, evolutionTimes, relevanceRates)
Construct ==
    /\ pc = "start"
    /\ \E rateTimes \in RateTimeInputs,
          evolutionTimes \in EvolutionTimeInputs,
          relevanceRates \in RelevanceInputs :
         \E out \in EvolutionDescription(rateTimes, evolutionTimes,
                                         relevanceRates) :
            /\ ctor' = [kind |-> "args", rateTimes |-> rateTimes,
                        evolutionTimes |-> evolutionTimes,
                        relevanceRates |-> relevanceRates]
            /\ built' = [status |-> out.status, error |-> out.error,
                         reads |-> out.reads, oob |-> out.oob]
            /\ ev' = out.ev
            /\ pc' = IF out.status = "ok" THEN "constructed" ELSE "failed"
    /\ UNCHANGED <<call, result>>

\* EvolutionDescription ev;
DefaultConstruct ==
    /\ pc = "start"
    /\ ctor' = [NoCtorCall EXCEPT !.kind = "default"]
    /\ built' = [NotBuilt EXCEPT !.status = "ok"]
    /\ ev' = DefaultEvolutionDescription
    /\ pc' = "constructed"
    /\ UNCHANGED <<call, result>>

\* a call of a free function on the constructed object
Apply(op, numeraires, offset, r) ==
    /\ call' = [op |-> op, numeraires |-> numeraires, offset |-> offset]
    /\ result' = r
    /\ pc' = "called"
    /\ UNCHANGED <<ctor, built, ev>>

CallCheckCompatibility ==
    /\ pc = "constructed"
    /\ \E numeraires \in NumeraireInputs(ev) :
         \E r \in Outcomes(checkCompatibility(ev, numeraires)) :
            Apply("checkCompatibility", numeraires, 0, r)

CallIsInTerminalMeasure ==
    /\ pc = "constructed"
    /\ \E numeraires \in NumeraireInputs(ev) :
         \E r \in Outcomes(isInTerminalMeasure(ev, numeraires)) :
            Apply("isInTerminalMeasure", numeraires, 0, r)

CallIsInMoneyMarketPlusMeasure ==
    /\ pc = "constructed"
    /\ \E numeraires \in NumeraireInputs(ev), offset \in OffsetInputs(ev) :
         \E r \in Outcomes(isInMoneyMarketPlusMeasure(ev, numeraires, offset)) :
            Apply("isInMoneyMarketPlusMeasure", numeraires, offset, r)

CallIsInMoneyMarketMeasure ==
    /\ pc = "constructed"
    /\ \E numeraires \in NumeraireInputs(ev) :
         \E r \in Outcomes(isInMoneyMarketMeasure(ev, numeraires)) :
            Apply("isInMoneyMarketMeasure", numeraires, 0, r)

CallTerminalMeasure ==
    /\ pc = "constructed"
    /\ \E r \in Outcomes(terminalMeasure(ev)) :
         Apply("terminalMeasure", <<>>, 0, r)

CallMoneyMarketPlusMeasure ==
    /\ pc = "constructed"
    /\ \E offset \in OffsetInputs(ev) :
         \E r \in Outcomes(moneyMarketPlusMeasure(ev, offset)) :
            Apply("moneyMarketPlusMeasure", <<>>, offset, r)

CallMoneyMarketMeasure ==
    /\ pc = "constructed"
    /\ \E r \in Outcomes(moneyMarketMeasure(ev)) :
         Apply("moneyMarketMeasure", <<>>, 0, r)

Next ==
    \/ Construct
    \/ DefaultConstruct
    \/ CallCheckCompatibility
    \/ CallIsInTerminalMeasure
    \/ CallIsInMoneyMarketPlusMeasure
    \/ CallIsInMoneyMarketMeasure
    \/ CallTerminalMeasure
    \/ CallMoneyMarketPlusMeasure
    \/ CallMoneyMarketMeasure

Spec == Init /\ [][Next]_vars

\* ------------------------------------------------------------ the claims
\* an object built by the validating constructor is at hand
Validated == ctor.kind = "args" /\ built.status = "ok" /\ ev.exists

\* n = rateTimes.size()-1 of the object at hand
MaxIndex == Len(ev.rateTimes_) - 1

\* rate time with 0-based index k, evolution time of 0-based step i
RateTime(k) == ev.rateTimes_[k + 1]

EvolutionTime(i) == ev.evolutionTimes_[i + 1]

\* m(i): the smallest index whose rate time is >= the evolution time of
\* step i, found by scanning from index 0
ScanFromZero(i) ==
    CHOOSE k \in 0..MaxIndex :
        /\ RateTime(k) >= EvolutionTime(i)
        /\ \A h \in 0..(k - 1) : RateTime(h) < EvolutionTime(i)

\* the money-market-plus assignment stated step by step
ExpectedMeasure(offset) ==
    [i \in 1..ev.steps_ |->
        IF ScanFromZero(i - 1) + offset < MaxIndex
        THEN ScanFromZero(i - 1) + offset ELSE MaxIndex]

\* the scenario: rateTimes = [0,1,2,3], evolution times left empty
ScenarioCall ==
    /\ pc = "called"
    /\ ctor.kind = "args"
    /\ ctor.rateTimes = ScenarioRateTimes
    /\ ctor.evolutionTimes = <<>>
    /\ call.op = "moneyMarketMeasure"

\* C1 as stated: in the scenario moneyMarketMeasure returns [1,2,3]
C1_Original ==
    ScenarioCall => (result.status = "ok" /\ result.vec = <<1, 2, 3>>)

\* C1 amended: for rateTimes = [0,1,2,3] with evolutionTimes left empty the
\* evolution times default to [0,1,2] and moneyMarketMeasure returns the
\* numeraire vector [0,1,2]
C1_Amended ==
    ScenarioCall =>
        /\ ev.evolutionTimes_ = <<0, 1, 2>>
        /\ result.status = "ok"
        /\ result.vec = <<0, 1, 2>>

C1_Witness == ScenarioCall /\ result.status = "ok"

\* C2: moneyMarketPlusMeasure fails with the range error when offset > n and
\* otherwise returns numberOfSteps() entries, entry i being
\* min(m(i) + offset, n) with m(i) found by a scan from index 0
C2_MoneyMarketPlus ==
    (pc = "called" /\ Validated /\ call.op = "moneyMarketPlusMeasure") =>
        IF call.offset > MaxIndex
        THEN result.status = "error" /\ result.error = ErrOffset
        ELSE /\ result.status = "ok"
             /\ Len(result.vec) = ev.steps_
             /\ result.vec = ExpectedMeasure(call.offset)

C2_Witness ==
    /\ pc = "called" /\ Validated /\ call.op = "moneyMarketPlusMeasure"
    /\ call.offset = 1
    /\ MaxIndex = 2
    /\ result.status = "ok"
    /\ result.vec = <<1, 2, 2>>

C2_WitnessRange ==
    /\ pc = "called" /\ Validated /\ call.op = "moneyMarketPlusMeasure"
    /\ call.offset = MaxIndex + 1
    /\ result.status = "error"

\* a scan of the steps that stops at the first mismatch
RECURSIVE FirstMismatchScan(_, _, _)
FirstMismatchScan(numeraires, expected, i) ==
    IF i > Len(expected) THEN TRUE
    ELSE IF numeraires[i] # expected[i] THEN FALSE
    ELSE FirstMismatchScan(numeraires, expected, i + 1)

\* C3: for an offset k <= n and a numeraire vector of numberOfSteps()
\* entries, isInMoneyMarketPlusMeasure is true exactly when the vector is
\* moneyMarketPlusMeasure(ev, k); isInMoneyMarketMeasure is the k = 0 case;
\* the full AND-accumulation agrees with a scan stopping at the first mismatch
C3_Classifier ==
    (/\ pc = "called" /\ Validated
     /\ call.op \in {"isInMoneyMarketPlusMeasure", "isInMoneyMarketMeasure"}
     /\ call.offset <= MaxIndex
     /\ Len(call.numeraires) = ev.steps_) =>
        LET generated ==
                IF call.op = "isInMoneyMarketMeasure"
                THEN moneyMarketMeasure(ev)
                ELSE moneyMarketPlusMeasure(ev, call.offset)
        IN  /\ generated.status = "ok"
            /\ result.status = "ok"
            /\ result.flag = (call.numeraires = generated.vec)
            /\ result.flag =
                 FirstMismatchScan(call.numeraires, generated.vec, 1)

C3_Witness ==
    /\ pc = "called" /\ Validated
    /\ call.op = "isInMoneyMarketPlusMeasure"
    /\ call.offset = 1
    /\ ev.steps_ = 3
    /\ call.numeraires = moneyMarketPlusMeasure(ev, 1).vec
    /\ call.numeraires[1] # call.numeraires[3]
    /\ result.flag = TRUE

C3_WitnessMismatch ==
    /\ pc = "called" /\ Validated
    /\ call.op = "isInMoneyMarketPlusMeasure"
    /\ call.offset <= MaxIndex
    /\ ev.steps_ = 3
    /\ Len(call.numeraires) = 3
    /\ call.numeraires[1] # moneyMarketPlusMeasure(ev, call.offset).vec[1]
    /\ call.numeraires[3] = moneyMarketPlusMeasure(ev, call.offset).vec[3]
    /\ result.flag = FALSE

\* the non-last steps whose numeraire's rate time is before the step's
\* evolution time
ExpiredSteps(numeraires) ==
    {i \in 0..(ev.steps_ - 2) :
        RateTime(numeraires[i + 1]) < EvolutionTime(i)}

\* the least element of a non-empty set of naturals
Least(S) == CHOOSE x \in S : \A y \in S : x <= y

\* C4: with entries in 0..n, checkCompatibility fails with the size-mismatch
\* error when the sizes differ; otherwise with the expiry error at the lowest
\* offending step exactly when a step other than the last has
\* rateTimes[numeraires[i]] < evolutionTimes[i]; equality and an expired
\* numeraire on the last step pass
C4_CheckCompatibility ==
    (/\ pc = "called" /\ Validated /\ call.op = "checkCompatibility"
     /\ \A i \in 1..Len(call.numeraires) : call.numeraires[i] <= MaxIndex) =>
        IF Len(call.numeraires) # ev.steps_
        THEN result.status = "error" /\ result.error = ErrSizeMismatch
        ELSE IF ExpiredSteps(call.numeraires) # {}
        THEN /\ result.status = "error"
             /\ result.error = ErrExpired
             /\ result.step = Least(ExpiredSteps(call.numeraires))
        ELSE result.status = "ok"

C4_Witness ==
    /\ pc = "called" /\ Validated /\ call.op = "checkCompatibility"
    /\ ev.steps_ = 3
    /\ Len(call.numeraires) = 3
    /\ \A i \in 1..3 : call.numeraires[i] <= MaxIndex
    /\ RateTime(call.numeraires[1]) = EvolutionTime(0)
    /\ RateTime(call.numeraires[3]) < EvolutionTime(2)
    /\ result.status = "ok"

C4_WitnessLowest ==
    /\ pc = "called" /\ Validated /\ call.op = "checkCompatibility"
    /\ Len(call.numeraires) = ev.steps_
    /\ \A i \in 1..Len(call.numeraires) : call.numeraires[i] <= MaxIndex
    /\ ExpiredSteps(call.numeraires) = {0, 1}
    /\ result.status = "error"
    /\ result.step = 0

\* the constructor's requirements on its arguments, in the order checked
Requirement(k, rateTimes, evolutionTimes, relevanceRates) ==
    LET used == IF Len(evolutionTimes) > 0 THEN evolutionTimes
                ELSE SubSeq(rateTimes, 1, Len(rateTimes) - 1)
    IN  CASE k = 1 -> rateTimes[1] >= 0
          [] k = 2 -> \A i \in 1..(Len(rateTimes) - 1) :
                         rateTimes[i] < rateTimes[i + 1]
          [] k = 3 -> /\ Len(used) > 0
                      /\ \A i \in 1..(Len(used) - 1) : used[i] < used[i + 1]
          [] k = 4 -> Len(used) > 0 =>
                         rateTimes[Len(rateTimes)] >= used[Len(used)]
          [] k = 5 -> relevanceRates = <<>> \/ Len(relevanceRates) = Len(used)

\* the error of each requirement
RequirementError(k, evolutionTimes, rateTimes) ==
    CASE k = 1 -> ErrFirstRateTime
      [] k = 2 -> ErrRateTimesOrder
      [] k = 3 -> IF Len(evolutionTimes) = 0 /\ Len(rateTimes) < 2
                  THEN ErrEvolutionSize ELSE ErrEvolutionOrder
      [] k = 4 -> ErrEvolutionPast
      [] k = 5 -> ErrRelevance

\* the requirements the last constructor call violates
Violated ==
    {k \in 1..5 : ~Requirement(k, ctor.rateTimes, ctor.evolutionTimes,
                               ctor.relevanceRates)}

\* C5: with at least 2 rate times the construction succeeds exactly when
\* every requirement holds; otherwise it raises the error of the first
\* violated requirement and no object is produced
C5_Construction ==
    (ctor.kind = "args" /\ Len(ctor.rateTimes) >= 2) =>
        IF Violated = {}
        THEN built.status = "ok" /\ ev.exists
        ELSE /\ built.status = "error"
             /\ built.error = RequirementError(Least(Violated),
                                               ctor.evolutionTimes,
                                               ctor.rateTimes)
             /\ ev = NoObject
             /\ pc = "failed"

C5_Witness ==
    /\ ctor.kind = "args"
    /\ Len(ctor.rateTimes) >= 2
    /\ {2, 3, 5} \subseteq Violated
    /\ built.status = "error"
    /\ built.error = ErrRateTimesOrder

C5_WitnessSuccess ==
    /\ ctor.kind = "args"
    /\ Len(ctor.rateTimes) = 3
    /\ ctor.evolutionTimes # <<>>
    /\ ctor.relevanceRates # <<>>
    /\ Violated = {}
    /\ built.status = "ok"

\* C6 as stated: constructing with fewer than 2 rate times (1 or 0, with or
\* without evolution times) fails with the "Rate times must have 2 elements
\* at least" error and with no other failure before it
C6_TooFewRateTimes ==
    (ctor.kind = "args" /\ Len(ctor.rateTimes) < 2) =>
        (built.status = "error" /\ built.error = ErrRateTimesSize)

\* the part of C6 the constructor does meet: exactly 1 rate time
C6_OneRateTime ==
    (ctor.kind = "args" /\ Len(ctor.rateTimes) = 1) =>
        (built.status = "error" /\ built.error = ErrRateTimesSize)

\* the evolution time that precedes step j (0 before the first step)
PreviousEvolutionTime(j) == IF j = 0 THEN 0 ELSE EvolutionTime(j - 1)

\* C7: firstAliveRate[j] is the smallest index i with
\* rateTimes[i] > evolutionTimes[j-1] (0 for j = 0), and firstAliveRate is
\* non-decreasing across the steps
C7_FirstAliveRate ==
    Validated =>
        /\ Len(ev.firstAliveRate_) = ev.steps_
        /\ \A j \in 0..(ev.steps_ - 1) :
             LET f == ev.firstAliveRate_[j + 1]
             IN  /\ f \in 0..MaxIndex
                 /\ RateTime(f) > PreviousEvolutionTime(j)
                 /\ \A i \in 0..(f - 1) :
                      ~(RateTime(i) > PreviousEvolutionTime(j))
        /\ \A j \in 1..(ev.steps_ - 1) :
             ev.firstAliveRate_[j] <= ev.firstAliveRate_[j + 1]

\* C8 as stated: terminalMeasure is numberOfSteps() copies of n, and for
\* every numeraire vector of numberOfSteps() entries isInTerminalMeasure is
\* true exactly when the vector equals terminalMeasure(ev)
C8_Original ==
    (pc = "called" /\ Validated) =>
        /\ call.op = "terminalMeasure" =>
             /\ result.status = "ok"
             /\ result.vec = [i \in 1..ev.steps_ |-> MaxIndex]
        /\ (call.op = "isInTerminalMeasure"
              /\ Len(call.numeraires) = ev.steps_) =>
             /\ result.status = "ok"
             /\ result.flag = (call.numeraires = terminalMeasure(ev).vec)

\* C8 amended: terminalMeasure is numberOfSteps() copies of n, and for every
\* numeraire vector of numberOfSteps() entries, all in 0..n,
\* isInTerminalMeasure is true exactly when the vector equals
\* terminalMeasure(ev); with entries above n it is true whenever the least
\* entry is n
C8_Amended ==
    (pc = "called" /\ Validated) =>
        /\ call.op = "terminalMeasure" =>
             /\ result.status = "ok"
             /\ result.vec = [i \in 1..ev.steps_ |-> MaxIndex]
        /\ (call.op = "isInTerminalMeasure"
              /\ Len(call.numeraires) = ev.steps_) =>
             /\ result.status = "ok"
             /\ (\A i \in 1..ev.steps_ : call.numeraires[i] <= MaxIndex) =>
                  result.flag = (call.numeraires = terminalMeasure(ev).vec)
             /\ result.flag =
                  /\ \A i \in 1..ev.steps_ : call.numeraires[i] >= MaxIndex
                  /\ \E i \in 1..ev.steps_ : call.numeraires[i] = MaxIndex

C8_Witness ==
    /\ pc = "called" /\ Validated
    /\ call.op = "isInTerminalMeasure"
    /\ ev.steps_ = 3
    /\ call.numeraires = terminalMeasure(ev).vec
    /\ result.flag = TRUE

\* C9: checkCompatibility accepts terminalMeasure(ev) and
\* moneyMarketPlusMeasure(ev, k) for every offset k <= n
C9_GeneratedAccepted ==
    (/\ pc = "called" /\ Validated /\ call.op = "checkCompatibility"
     /\ \/ call.numeraires = terminalMeasure(ev).vec
        \/ \E k \in 0..MaxIndex :
              call.numeraires = moneyMarketPlusMeasure(ev, k).vec) =>
        result.status = "ok"

C9_Witness ==
    /\ pc = "called" /\ Validated /\ call.op = "checkCompatibility"
    /\ ev.steps_ = 3
    /\ call.numeraires = moneyMarketMeasure(ev).vec
    /\ call.numeraires # terminalMeasure(ev).vec
    /\ RateTime(call.numeraires[2]) = EvolutionTime(1)
    /\ result.status = "ok"

\* the indices read by a cursor loop: all inside the vector, starting at 0,
\* never decreasing, at most size-1 increments in all
CursorInBounds(reads, size) ==
    /\ \A k \in 1..Len(reads) : reads[k] \in 0..(size - 1)
    /\ \A k \in 2..Len(reads) :
         reads[k] = reads[k - 1] \/ reads[k] = reads[k - 1] + 1
    /\ Len(reads) > 0 => reads[1] = 0
    /\ Cardinality({k \in 2..Len(reads) : reads[k] # reads[k - 1]})
         <= size - 1

\* C10: for arguments that pass the constructor's checks the cursors of the
\* first-alive-rate sweep, of moneyMarketPlusMeasure and of
\* isInMoneyMarketPlusMeasure read rateTimes only inside 0..size-1, never
\* decrease and are incremented at most size-1 times, and the loops end
C10_CursorBounds ==
    (/\ ctor.kind = "args"
     /\ Len(ctor.rateTimes) >= 2
     /\ Violated = {}) =>
        /\ built.status = "ok"
        /\ ~built.oob
        /\ Len(built.reads) >= ev.steps_
        /\ CursorInBounds(built.reads, Len(ev.rateTimes_))
        /\ (/\ pc = "called"
            /\ call.op \in {"moneyMarketPlusMeasure", "moneyMarketMeasure",
                            "isInMoneyMarketPlusMeasure",
                            "isInMoneyMarketMeasure"}
            /\ call.offset <= MaxIndex
            /\ call.op \in {"isInMoneyMarketPlusMeasure",
                            "isInMoneyMarketMeasure"} =>
                  Len(call.numeraires) >= ev.steps_) =>
             /\ result.status = "ok"
             /\ ~result.oob
             /\ Len(result.reads) >= ev.steps_
             /\ CursorInBounds(result.reads, Len(ev.rateTimes_))

C10_Witness ==
    /\ pc = "called" /\ Validated
    /\ call.op = "moneyMarketPlusMeasure"
    /\ ev.steps_ = 3
    /\ result.status = "ok"
    /\ result.reads[Len(result.reads)] = MaxIndex
    /\ built.reads[Len(built.reads)] = MaxIndex

\* the part of C7 the sweep does meet: when no evolution time is negative
\* firstAliveRate[j] is the smallest index i with
\* rateTimes[i] > evolutionTimes[j-1] (0 for j = 0)
C7_NonNegativeEvolution ==
    (Validated /\ \A j \in 0..(ev.steps_ - 1) : EvolutionTime(j) >= 0) =>
        \A j \in 0..(ev.steps_ - 1) :
           LET f == ev.firstAliveRate_[j + 1]
           IN  /\ f \in 0..MaxIndex
               /\ RateTime(f) > PreviousEvolutionTime(j)
               /\ \A i \in 0..(f - 1) :
                    ~(RateTime(i) > PreviousEvolutionTime(j))

====
